---- MODULE Spec2Model ----
(***************************************************************************)
(* Kataribe core runtime (packages/core/src/runtime.ts): the client        *)
(* runtime and the server runtime with one attached connection.  A         *)
(* behaviour follows one of the two (host), its peer being the             *)
(* environment, which puts arbitrary frames on the transport; or it        *)
(* follows both, joined by a reliable in-order link (SpecPair).  "server"  *)
(* names the state attachTransport keeps for the connection (its pending   *)
(* table, its transport).  Spec: calls, replies, timers, close.            *)
(* SpecLocal: calls, timers, close with a silent peer.  SpecReply: calls,  *)
(* replies, timers, close without failures.  SpecServe: inbound requests.  *)
(* SpecEmit: outbound validation.  SpecEvents: subscriptions and inbound   *)
(* events.  SpecPipe: the inbound callback await by await, with            *)
(* middlewares and handlers that suspend.  SpecChain: its middleware       *)
(* chain alone.  SpecLoop: the subscriber loop await by await.             *)
(* SpecTables: a server runtime with two connections and a configured      *)
(* generateId.  SpecCorrelate: several calls outstanding at once.          *)
(* SpecUntimed: calls without timeoutMs.  SpecShutdown: close() of         *)
(* connections, peers and runtimes over transports of either class.        *)
(* SpecWire: everything a runtime sends.  SpecResponse: replies checked    *)
(* against the response schema.  SpecNested: a handler that calls its      *)
(* peer before it returns.  SpecSubs: a handler subscribed more than once. *)
(***************************************************************************)
EXTENDS Integers, Sequences, FiniteSets, TLC

\* ------------------------------------------------------------------ bounds
MaxCalls == 2
MaxReplies == 1
MaxRequests == 2
MaxEmits == 2
MaxFaults == 1
MaxCloses == 1
MaxJobs == 2
MaxEvents == 2
MaxInvokes == 4
MaxConnCloses == 2
MaxNested == 1
MaxSubs == 2

\* --------------------------------------------------------------- constants
Version == 1

Runtimes == {"client", "server"}

TimeoutChoices == {0, 50}

Undefined == "undefined"

NoId == 0

NoMsg == <<>>

\* id a non-conforming peer puts on its own requests
PeerReqId == 9

\* ------------------------------------------------------------ the contract
RpcToServer == {"add", "echo"}

RpcToClient == {"notify"}

Events == {"message"}

\* the handler functions the application subscribes with
HandlerIds == {"h1", "h2"}

\* members every object literal inherits from Object.prototype
ObjectPrototypeKeys == {"toString"}

\* handlers.rpcToServer of the server, handlersForServerCalls of the client
ServerHandlers == {"add"}

ClientHandlers == {"notify"}

ServerEventHandlers == {"message"}

\* descriptors that carry validateReq / validateRes / validate
ValidatedRpc == {"add", "notify"}

ValidatedEvents == {"message"}

\* Object.keys(methodMap): the caller's direction
OutMethods(r) == IF r = "client" THEN RpcToServer ELSE RpcToClient

\* rpcDefs of the receiving direction
RpcDefs(r) == IF r = "client" THEN RpcToClient ELSE RpcToServer

HandlerMap(r) == IF r = "client" THEN ClientHandlers ELSE ServerHandlers

\* options.middlewares, in registration order
Middlewares == <<"mw1", "mw2">>

\* the other end of r's transport
Peer(r) == IF r = "client" THEN "server" ELSE "client"

\* obj[key] is truthy: own keys and the inherited ones
Lookup(keys, key) == key \in keys \cup ObjectPrototypeKeys

\* ------------------------------------------------------------------ errors
TimeoutError(method) == <<"RPC Timeout", method>>

ClosedError == <<"client runtime closed">>

ValidationError == <<"validation failed">>

MiddlewareError == <<"middleware error">>

SendError == <<"send failed">>

HandlerError == <<"handler error">>

CloseError == <<"close failed">>

RpcErrorFallback == <<"RPC Error">>

NotFoundMessage(r, method) ==
  IF r = "client" THEN <<"Client method not found", method>>
  ELSE <<"Method not found", method>>

\* --------------------------------------------------------------- envelopes
makeBaseEnvelope(kind, version) ==
  [v |-> version, kind |-> kind, id |-> NoId, ch |-> Undefined,
   p |-> Undefined, m |-> NoMsg, code |-> Undefined, feat |-> Undefined]

Features == "features"

\* the hello without feat: options.features
HelloWithoutFeatures == makeBaseEnvelope("hello", Version)

HelloEnvelope == [makeBaseEnvelope("hello", Version) EXCEPT !.feat = Features]

\* a frame on the link: JSON text of an envelope, or text that does not parse
Frame(env) == [json |-> TRUE, env |-> env]

GarbageFrame == [json |-> FALSE, env |-> makeBaseEnvelope(Undefined, 0)]

parseJson(raw) == [object |-> raw.json, env |-> raw.env]

\* -------------------------------------------------------------- validators
applyRpcRequestValidation(ch, value) ==
  IF ch \in ValidatedRpc /\ value = "badreq"
  THEN [ok |-> FALSE, val |-> Undefined, err |-> ValidationError]
  ELSE IF ch \in ValidatedRpc /\ value = "rawreq"
  THEN [ok |-> TRUE, val |-> "req", err |-> NoMsg]
  ELSE [ok |-> TRUE, val |-> value, err |-> NoMsg]

\* a descriptor whose response validator is never consulted
applyRpcResponseValidationSkipped(ch, value) ==
  [ok |-> TRUE, val |-> value, err |-> NoMsg]

applyRpcResponseValidation(ch, value) ==
  IF ch \in ValidatedRpc /\ value = "badres"
  THEN [ok |-> FALSE, val |-> Undefined, err |-> ValidationError]
  ELSE IF ch \in ValidatedRpc /\ value = "rawres"
  THEN [ok |-> TRUE, val |-> "res", err |-> NoMsg]
  ELSE [ok |-> TRUE, val |-> value, err |-> NoMsg]

\* an event descriptor whose validator is never consulted
applyEventValidationSkipped(ch, value) ==
  [ok |-> TRUE, val |-> value, err |-> NoMsg]

applyEventValidation(ch, value) ==
  IF ch \in ValidatedEvents /\ value = "badev"
  THEN [ok |-> FALSE, val |-> Undefined, err |-> ValidationError]
  ELSE IF ch \in ValidatedEvents /\ value = "rawev"
  THEN [ok |-> TRUE, val |-> "ev", err |-> NoMsg]
  ELSE [ok |-> TRUE, val |-> value, err |-> NoMsg]

\* -------------------------------------------------------------------- maps
EmptyMap == [x \in {} |-> 0]

\* Map.set(k, v) that stores nothing
MapSetNothing(m, k, v) == m

MapSet(m, k, v) == [x \in DOMAIN m \cup {k} |-> IF x = k THEN v ELSE m[x]]

\* Map.clear() where Map.delete(k) is meant
MapDeleteAll(m, k) == [x \in {} |-> m[x]]

MapDelete(m, k) == [x \in DOMAIN m \ {k} |-> m[x]]

\* ------------------------------------------------------------------- state
VARIABLES
  host,        \* the runtime this process hosts
  timeoutMs,   \* options.timeoutMs of each runtime
  nextId,      \* genId: the next fresh id
  calls,       \* outbound calls: the closure state of each rpc.<method>() call
  pending,     \* pending: Map<string, PendingEntry> of each runtime
  sent,        \* every transport.send invocation of each runtime (out: after
               \* the outbound middleware chain)
  reqs,        \* inbound rpc_req dispatches that reached the method lookup
  evs,         \* event handler invocations
  eventHandlers, \* eventHandlers: Map<string, Set<handler>> of the client
  open,        \* transport.isOpen() of each side
  conns,       \* conns: Set<ServerConnection> of the server runtime
  closeRet,    \* number of close() calls of each runtime that returned
  log,         \* logger.error invocations
  escaped,     \* exceptions that left close() or an onMessage callback (n: its dispatch)
  unknown,     \* onUnknownEnvelope invocations
  received,    \* number of onMessage callback invocations so far
  rx,          \* the latest of them: runtime and frame
  emits,       \* every emit.<event>() call: event name and payload
  faults,      \* middleware / transport failures so far
  delivered,   \* per runtime: how many of the peer's sends the link has delivered
  jobs,        \* onMessage callback invocations whose chain may be suspended
  socket,      \* the transports' class and each one's underlying socket.close() calls
  subs,        \* per handler: onEvent calls whose disposer has not been called yet
  trace        \* what the inbound middlewares and stages did, in time order

vars == <<host, timeoutMs, nextId, calls, pending, sent, reqs, evs,
          eventHandlers, open,
          conns, closeRet, log, escaped, unknown, received, rx, emits, faults,
          delivered, jobs, socket, subs, trace>>

\* runtime r lives in this process ("both": the two ends of one link); every
\* connection of the server runtime lives in the server's process
Runs(r) == host \in {IF r = "client" THEN "client" ELSE "server", "both"}

NoOutcome == [kind |-> "pending", via |-> "none", val |-> <<>>]

\* the state right after createClientRuntime / attachTransport returned, T
\* being the transports that exist: those of Runtimes are attached, guarded
\* tells whether the transport class remembers that it was closed
ConstructedOn(T, guarded) ==
  /\ \E t \in TimeoutChoices : timeoutMs = [r \in T |-> t]
  /\ nextId = 1
  /\ calls = <<>>
  /\ pending = [r \in T |-> EmptyMap]
  /\ sent = [r \in T |->
              IF r \in Runtimes
              THEN <<[env |-> HelloEnvelope, ok |-> TRUE, re |-> 0, out |-> FALSE]>>
              ELSE <<>>]
  /\ reqs = <<>>
  /\ evs = <<>>
  /\ eventHandlers = [ch \in {} |-> <<>>]
  /\ open = [r \in T |-> TRUE]
  /\ conns = {"server"}
  /\ closeRet = [r \in T \cup {"runtime"} |-> 0]
  /\ socket = [guarded |-> guarded, closes |-> [r \in T |-> 0]]
  /\ subs = [h \in HandlerIds |-> 0]
  /\ log = <<>>
  /\ escaped = <<>>
  /\ unknown = 0
  /\ received = 0
  /\ rx = [rt |-> "client", raw |-> GarbageFrame]
  /\ emits = <<>>
  /\ delivered = [r \in T |-> 0]
  /\ jobs = <<>>
  /\ trace = <<>>

\* one client and one server connection, over transports that remember
Constructed == ConstructedOn(Runtimes, TRUE)

Init == host \in Runtimes /\ faults = 0 /\ Constructed

\* ---------------------------------------------------------------- promises
\* resolve()/reject() of call k's promise: only the first one takes effect
Settle(cs, k, kind, via, val) ==
  [cs EXCEPT ![k].outcome = IF @.kind = "pending"
                            THEN [kind |-> kind, via |-> via, val |-> val]
                            ELSE @,
             ![k].settles = @ + 1]

\* entry.resolve() that forgets the payload of the rpc_res
ResolveDropsPayload(cs, k, p) ==
  Settle(cs, k, "resolved", "rpc_res", <<Undefined>>)

\* entry.resolve(env.p) followed by .then(applyRpcResponseValidation)
Resolve(cs, k, p) ==
  LET v == applyRpcResponseValidation(cs[k].ch, p)
  IN IF v.ok THEN Settle(cs, k, "resolved", "rpc_res", <<v.val>>)
     ELSE Settle(cs, k, "rejected", "rpc_res", v.err)

\* a settling path that leaves the timer armed
ClearTimerForgotten(cs, k) == cs

\* clearTimeout(entry.timer)
ClearTimer(cs, k) ==
  [cs EXCEPT ![k].timer = IF @ = "armed" THEN "cleared" ELSE @]

\* the failures the environment may still produce at the given points
FaultSets(points) ==
  {F \in SUBSET points : Cardinality(F) <= MaxFaults - faults}

\* await runMiddlewares(middlewares, env, "out") has returned, then
\* transport.send(env) by runtime r, answering dispatch n (0: none)
Transmit(eff, r, env, n, throws) ==
  [eff EXCEPT !.sent[r] =
                Append(@, [env |-> env, ok |-> ~throws, re |-> n, out |-> TRUE])]

\* catch block of the async body, entry found, without clearTimeout
FailCallKeepsTimer(cs, e, err) == Settle(cs, e, "rejected", "outbound", err)

\* catch block of the async body once the entry is found
FailCall(cs, e, err) ==
  Settle(ClearTimer(cs, e), e, "rejected", "outbound", err)

\* --------------------------------------------------------- outbound calls
\* a timer armed whatever options.timeoutMs is
ArmTimerAlways(r) == "armed"

\* const timer = options.timeoutMs ? setTimeout(...) : undefined
ArmTimer(r) == IF timeoutMs[r] /= 0 THEN "armed" ELSE "none"

\* rpc.<method>(req) / callClient.<method>(req) up to the first await, genId()
\* having returned id; by: the inbound dispatch whose handler makes the call
\* (0: the application does)
CallBy(r, method, req, id, by) ==
  /\ Runs(r)
  /\ method \in OutMethods(r)
  /\ LET k == Len(calls) + 1
     IN /\ calls' = Append(calls,
                      [rt |-> r, id |-> id, ch |-> method, p |-> req,
                       pc |-> "validating", fail |-> NoMsg,
                       timer |-> ArmTimer(r),
                       outcome |-> NoOutcome, settles |-> 0, by |-> by])
        /\ pending' = [pending EXCEPT ![r] = MapSet(@, id, k)]
  /\ UNCHANGED <<delivered, jobs, trace, host, socket,
                 timeoutMs, sent, reqs, evs, eventHandlers, open, conns, closeRet,
                 log, escaped, unknown, received, rx, emits, faults, subs>>

CallWithId(r, method, req, id) == CallBy(r, method, req, id, 0)

\* the same with the default generator: an id no call has had
Call(r, method, req) ==
  /\ CallWithId(r, method, req, nextId)
  /\ nextId' = nextId + 1

\* the async body of the call: validate, middleware, send; catch
CallSend(k) ==
  /\ k \in 1..Len(calls)
  /\ calls[k].pc = "validating"
  /\ LET c == calls[k]
         r == c.rt
         v == applyRpcRequestValidation(c.ch, c.p)
         env == [makeBaseEnvelope("rpc_req", Version)
                   EXCEPT !.id = c.id, !.ch = c.ch, !.p = v.val]
     IN \E F \in FaultSets({"mw", "send"}) :
          LET mwThrows == v.ok /\ "mw" \in F
              sendCalled == v.ok /\ ~mwThrows
              sendThrows == sendCalled /\ "send" \in F
              failed == ~v.ok \/ mwThrows \/ sendThrows
              err == IF ~v.ok THEN v.err
                     ELSE IF mwThrows THEN MiddlewareError ELSE SendError
              hasEntry == c.id \in DOMAIN pending[r]
              cs1 == [calls EXCEPT ![k].pc = IF failed THEN "failed" ELSE "sent",
                                   ![k].fail = IF failed THEN err ELSE NoMsg]
          IN /\ F = {x \in {"mw"} : mwThrows} \cup {x \in {"send"} : sendThrows}
             /\ sent' = IF sendCalled
                        THEN [sent EXCEPT ![r] =
                                Append(@, [env |-> env, ok |-> ~sendThrows, re |-> 0,
                                           out |-> TRUE])]
                        ELSE sent
             /\ calls' = IF failed /\ hasEntry
                         THEN LET e == pending[r][c.id]
                              IN FailCall(cs1, e, err)
                         ELSE cs1
             /\ pending' = IF failed /\ hasEntry
                           THEN [pending EXCEPT ![r] = MapDelete(@, c.id)]
                           ELSE pending
             /\ faults' = faults + Cardinality(F)
  /\ UNCHANGED <<delivered, jobs, trace, host, socket,
                 timeoutMs, nextId, reqs, evs, eventHandlers, open, conns, closeRet, log,
                 escaped, unknown, received, rx, emits, subs>>

\* the setTimeout callback of call k, without pending.delete(id)
TimerFireKeepsEntry(k) ==
  /\ k \in 1..Len(calls)
  /\ calls[k].timer = "armed"
  /\ calls' = Settle([calls EXCEPT ![k].timer = "fired"], k,
                     "rejected", "timeout", TimeoutError(calls[k].ch))
  /\ UNCHANGED <<delivered, jobs, trace, host, socket,
                 timeoutMs, nextId, pending, sent, reqs, evs,
                 eventHandlers, open, conns, closeRet, log, escaped, unknown,
                 received, rx, emits, faults, subs>>

\* the setTimeout callback of call k
TimerFire(k) ==
  /\ k \in 1..Len(calls)
  /\ calls[k].timer = "armed"
  /\ LET c == calls[k]
     IN /\ pending' = [pending EXCEPT ![c.rt] = MapDelete(@, c.id)]
        /\ calls' = Settle([calls EXCEPT ![k].timer = "fired"], k,
                           "rejected", "timeout", TimeoutError(c.ch))
  /\ UNCHANGED <<delivered, jobs, trace, host, socket,
                 timeoutMs, nextId, sent, reqs, evs, eventHandlers, open, conns,
                 closeRet, log, escaped, unknown, received, rx, emits, faults, subs>>

\* ------------------------------------------------------------------ close
\* loop body of client close() without clearTimeout
AbandonKeepsTimer(cs, k) == Settle(cs, k, "rejected", "close", ClosedError)

\* loop body of client close(): p.reject(...), clearTimeout(p.timer)
Abandon(cs, k) ==
  Settle(ClearTimer(cs, k), k, "rejected", "close", ClosedError)

\* transport.close() of transport c calls the underlying socket's close,
\* unless the transport remembers that it was closed
SocketCalled(c) == ~socket.guarded \/ open[c]

\* transport.close() of transport c; throws: the socket's close throws.  A
\* transport that remembers sets its flag before it calls the socket
TransportClose(c, throws) ==
  [open |-> [open EXCEPT ![c] = IF socket.guarded \/ ~throws THEN FALSE ELSE @],
   socket |-> [socket EXCEPT !.closes[c] = IF SocketCalled(c) THEN @ + 1 ELSE @]]

\* client close(): transport.close(), then abandon every pending entry
ClientClose ==
  /\ Runs("client")
  /\ closeRet["client"] < MaxCloses
  /\ \E F \in FaultSets({x \in {"close"} : SocketCalled("client")}) :
       /\ open' = TransportClose("client", "close" \in F).open
       /\ socket' = TransportClose("client", "close" \in F).socket
       /\ IF "close" \in F
          THEN /\ escaped' = Append(escaped, [n |-> 0, err |-> CloseError])
               /\ faults' = faults + 1
               /\ UNCHANGED <<calls, pending, closeRet>>
          ELSE /\ LET ks == {pending["client"][i] : i \in DOMAIN pending["client"]}
                  IN calls' = [k \in 1..Len(calls) |->
                                 IF k \in ks
                                 THEN Abandon(calls, k)[k]
                                 ELSE calls[k]]
               /\ pending' = [pending EXCEPT !["client"] = EmptyMap]
               /\ closeRet' = [closeRet EXCEPT !["client"] = @ + 1]
               /\ UNCHANGED <<escaped, faults>>
  /\ UNCHANGED <<delivered, jobs, trace, host,
                 timeoutMs, nextId, sent, reqs, evs, eventHandlers, conns, log,
                 unknown, received, rx, emits, subs>>

\* the transports of the server runtime, in the order they get attached
AttachOrder == <<"server", "conn2">>

\* the connection of transport c exists: attachTransport(c) has sent its hello
Attached(c) == Len(sent[c]) > 0

\* conn.close() of the connection of transport c: () => transport.close()
ConnCloseOn(c) ==
  /\ Runs("server")
  /\ Attached(c)
  /\ \E F \in FaultSets({x \in {"close"} : SocketCalled(c)}) :
       /\ open' = TransportClose(c, "close" \in F).open
       /\ socket' = TransportClose(c, "close" \in F).socket
       /\ IF "close" \in F
          THEN /\ escaped' = Append(escaped, [n |-> 0, err |-> CloseError])
               /\ faults' = faults + 1
               /\ UNCHANGED closeRet
          ELSE /\ closeRet' = [closeRet EXCEPT ![c] = @ + 1]
               /\ UNCHANGED <<escaped, faults>>
  /\ UNCHANGED <<delivered, jobs, trace, host,
                 timeoutMs, nextId, calls, pending, sent, reqs, evs,
                 eventHandlers, conns, log, unknown, received, rx, emits, subs>>

\* a loop that gives up after the first connection
ReachedFirst(order, at) == {order[i] : i \in 1..(IF Len(order) > 0 THEN 1 ELSE 0)}

\* the connections for (const c of conns) reaches when the close of the one
\* at place at throws (0: none throws)
Reached(order, at) == {order[i] : i \in 1..(IF at = 0 THEN Len(order) ELSE at)}

\* server runtime close(): for (const c of conns) c.close(); conns.clear().
\* The loop is left at the first connection whose close throws (at: its
\* place in the iteration, 0 when none throws)
ServerCloseAll ==
  /\ Runs("server")
  /\ LET order == SelectSeq(AttachOrder, LAMBDA c : c \in conns)
     IN \E at \in 0..Len(order) :
          LET reached == Reached(order, at)
              thrower(c) == at > 0 /\ c = order[at]
          IN /\ at > 0 => (faults < MaxFaults /\ SocketCalled(order[at]))
             /\ open' = [c \in DOMAIN open |->
                           IF c \in reached
                           THEN TransportClose(c, thrower(c)).open[c]
                           ELSE open[c]]
             /\ socket' = [socket EXCEPT !.closes =
                             [c \in DOMAIN open |->
                                IF c \in reached
                                THEN TransportClose(c, thrower(c)).socket.closes[c]
                                ELSE socket.closes[c]]]
             /\ IF at > 0
                THEN /\ escaped' = Append(escaped, [n |-> 0, err |-> CloseError])
                     /\ faults' = faults + 1
                     /\ UNCHANGED <<conns, closeRet>>
                ELSE /\ conns' = {}
                     /\ closeRet' = [closeRet EXCEPT !["runtime"] = @ + 1]
                     /\ UNCHANGED <<escaped, faults>>
  /\ UNCHANGED <<delivered, jobs, trace, host,
                 timeoutMs, nextId, calls, pending, sent, reqs, evs,
                 eventHandlers, log, unknown, received, rx, emits, subs>>

\* close() of the one connection the server has
ConnClose ==
  /\ closeRet["server"] + closeRet["runtime"] < MaxCloses
  /\ ConnCloseOn("server")

\* close() of a server runtime that has one connection
ServerClose ==
  /\ closeRet["server"] + closeRet["runtime"] < MaxCloses
  /\ ServerCloseAll

\* -------------------------------------------------------- inbound dispatch
\* the error reply without the echo of the request id
ReplyErrNoId(eff, r, n, env, msg, code, F) ==
  LET errEnv == [makeBaseEnvelope("rpc_err", Version)
                   EXCEPT !.ch = env.ch, !.m = msg, !.code = code]
  IN IF "mwErr" \in F
     THEN [eff EXCEPT !.escaped = Append(@, [n |-> n, err |-> MiddlewareError]),
                      !.used = @ \cup {"mwErr"}]
     ELSE IF "sendErr" \in F
     THEN [Transmit(eff, r, errEnv, n, TRUE)
             EXCEPT !.escaped = Append(@, [n |-> n, err |-> SendError]),
                    !.used = @ \cup {"sendErr"}]
     ELSE Transmit(eff, r, errEnv, n, FALSE)

\* the error reply: errEnv, outbound middleware, transport.send (no catch)
ReplyErr(eff, r, n, env, msg, code, F) ==
  LET errEnv == [makeBaseEnvelope("rpc_err", Version)
                   EXCEPT !.id = env.id, !.ch = env.ch, !.m = msg, !.code = code]
  IN IF "mwErr" \in F
     THEN [eff EXCEPT !.escaped = Append(@, [n |-> n, err |-> MiddlewareError]),
                      !.used = @ \cup {"mwErr"}]
     ELSE IF "sendErr" \in F
     THEN [Transmit(eff, r, errEnv, n, TRUE)
             EXCEPT !.escaped = Append(@, [n |-> n, err |-> SendError]),
                    !.used = @ \cup {"sendErr"}]
     ELSE Transmit(eff, r, errEnv, n, FALSE)

\* the try block without its catch: a handler exception leaves the dispatch
ReplyResRethrows(eff, r, n, env, result, F) ==
  LET v == applyRpcResponseValidation(env.ch, result.val)
      resEnv == [makeBaseEnvelope("rpc_res", Version)
                   EXCEPT !.id = env.id, !.ch = env.ch, !.p = v.val]
  IN IF result.throws
     THEN [eff EXCEPT !.escaped = Append(@, [n |-> n, err |-> HandlerError])]
     ELSE IF ~v.ok
     THEN [eff EXCEPT !.escaped = Append(@, [n |-> n, err |-> v.err])]
     ELSE IF "mwRes" \in F
     THEN [eff EXCEPT !.escaped = Append(@, [n |-> n, err |-> MiddlewareError]),
                      !.used = @ \cup {"mwRes"}]
     ELSE IF "sendRes" \in F
     THEN [Transmit(eff, r, resEnv, n, TRUE)
             EXCEPT !.escaped = Append(@, [n |-> n, err |-> SendError]),
                    !.used = @ \cup {"sendRes"}]
     ELSE Transmit(eff, r, resEnv, n, FALSE)

\* the rest of the try block once the handler has settled, and its catch
ReplyRes(eff, r, n, env, result, F) ==
  LET v == applyRpcResponseValidation(env.ch, result.val)
      resEnv == [makeBaseEnvelope("rpc_res", Version)
                   EXCEPT !.id = env.id, !.ch = env.ch, !.p = v.val]
  IN IF result.throws
     THEN ReplyErr(eff, r, n, env, HandlerError, Undefined, F)
     ELSE IF ~v.ok
     THEN ReplyErr(eff, r, n, env, v.err, Undefined, F)
     ELSE IF "mwRes" \in F
     THEN ReplyErr([eff EXCEPT !.used = @ \cup {"mwRes"}],
                   r, n, env, MiddlewareError, Undefined, F)
     ELSE IF "sendRes" \in F
     THEN ReplyErr([Transmit(eff, r, resEnv, n, TRUE)
                      EXCEPT !.used = @ \cup {"sendRes"}],
                   r, n, env, SendError, Undefined, F)
     ELSE Transmit(eff, r, resEnv, n, FALSE)

\* a lookup in one table that all connections of the runtime share
PendingGetShared(eff, r, id) ==
  IF \E c \in DOMAIN eff.pending : id \in DOMAIN eff.pending[c]
  THEN LET c == CHOOSE c \in DOMAIN eff.pending : id \in DOMAIN eff.pending[c]
       IN eff.pending[c][id]
  ELSE 0

\* pending.get(id) in the table of r's own closure: the call the entry
\* belongs to, 0 when the table has no such entry
PendingGet(eff, r, id) ==
  IF id \in DOMAIN eff.pending[r] THEN eff.pending[r][id] ELSE 0

\* case "rpc_res" / "rpc_err" settling some entry when the id is not found
DispatchReplyAnyEntry(eff, r, env) ==
  IF env.id = NoId \/ DOMAIN eff.pending[r] = {}
  THEN eff
  ELSE LET id == IF env.id \in DOMAIN eff.pending[r] THEN env.id
                 ELSE CHOOSE i \in DOMAIN eff.pending[r] : TRUE
           k == eff.pending[r][id]
           settled == IF env.kind = "rpc_res"
                      THEN Resolve(eff.calls, k, env.p)
                      ELSE Settle(eff.calls, k, "rejected", "rpc_err",
                                  IF env.m = NoMsg THEN RpcErrorFallback
                                  ELSE env.m)
       IN [eff EXCEPT !.calls = ClearTimer(settled, k),
                      !.pending[r] = MapDelete(@, id)]

\* case "rpc_res" / "rpc_err"
DispatchReply(eff, r, env) ==
  IF env.id = NoId \/ PendingGet(eff, r, env.id) = 0
  THEN eff
  ELSE LET k == PendingGet(eff, r, env.id)
           settled == IF env.kind = "rpc_res"
                      THEN Resolve(eff.calls, k, env.p)
                      ELSE Settle(eff.calls, k, "rejected", "rpc_err",
                                  IF env.m = NoMsg THEN RpcErrorFallback
                                  ELSE env.m)
       IN [eff EXCEPT !.calls = ClearTimer(settled, k),
                      !.pending[r] = MapDelete(@, env.id)]

\* case "rpc_req" looking the method up in the maps of the other direction
DispatchRequestOtherDirection(eff, r, env, F) ==
  LET method == env.ch
      n == Len(eff.reqs) + 1
      found == /\ Lookup(RpcDefs(Peer(r)), method)
               /\ Lookup(HandlerMap(Peer(r)), method)
      v == applyRpcRequestValidation(method, env.p)
      rec(invoked, state) ==
        [rt |-> r, env |-> env, invoked |-> invoked, state |-> state,
         arg |-> IF invoked THEN v.val ELSE Undefined, result |-> Undefined,
         rcv |-> eff.rcv]
  IN IF method = Undefined THEN eff
     ELSE IF ~found
     THEN ReplyErr([eff EXCEPT !.reqs = Append(@, rec(FALSE, "notFound"))],
                   r, n, env, NotFoundMessage(r, method), "NOT_FOUND", F)
     ELSE IF ~v.ok
     THEN ReplyErr([eff EXCEPT !.reqs = Append(@, rec(FALSE, "invalid"))],
                   r, n, env, v.err, Undefined, F)
     ELSE [eff EXCEPT !.reqs = Append(@, rec(TRUE, "handler"))]

\* case "rpc_req" up to the await of the handler
DispatchRequest(eff, r, env, F) ==
  LET method == env.ch
      n == Len(eff.reqs) + 1
      found == Lookup(RpcDefs(r), method) /\ Lookup(HandlerMap(r), method)
      v == applyRpcRequestValidation(method, env.p)
      rec(invoked, state) ==
        [rt |-> r, env |-> env, invoked |-> invoked, state |-> state,
         arg |-> IF invoked THEN v.val ELSE Undefined, result |-> Undefined,
         rcv |-> eff.rcv]
  IN IF method = Undefined THEN eff
     ELSE IF ~found
     THEN ReplyErr([eff EXCEPT !.reqs = Append(@, rec(FALSE, "notFound"))],
                   r, n, env, NotFoundMessage(r, method), "NOT_FOUND", F)
     ELSE IF ~v.ok
     THEN ReplyErr([eff EXCEPT !.reqs = Append(@, rec(FALSE, "invalid"))],
                   r, n, env, v.err, Undefined, F)
     ELSE [eff EXCEPT !.reqs = Append(@, rec(TRUE, "handler"))]

\* the handlers an inbound event on channel name is looked up to: the
\* channel's Set on the client (it stays in the Map when it gets empty), the
\* handlers.events member on the server
Registered(r, name) ==
  IF r = "client" THEN name \in DOMAIN eventHandlers
  ELSE Lookup(ServerEventHandlers, name)

Subscribers(r, name) ==
  IF ~Registered(r, name) THEN <<>>
  ELSE IF r = "client" THEN eventHandlers[name]
  ELSE <<"handler">>

\* the handlers that may throw while env is dispatched
ThrowSets(r, env) ==
  IF env.kind = "event" /\ env.ch /= Undefined
  THEN SUBSET {Subscribers(r, env.ch)[i] : i \in 1..Len(Subscribers(r, env.ch))}
  ELSE {{}}

\* case "event" with a handler loop that an exception leaves
DispatchEventStopsAtThrow(eff, r, env, T) ==
  LET name == env.ch
      hs == Subscribers(r, name)
      v == IF Lookup(Events, name) THEN applyEventValidation(name, env.p)
           ELSE [ok |-> TRUE, val |-> env.p, err |-> NoMsg]
      first == IF \E i \in 1..Len(hs) : hs[i] \in T
               THEN CHOOSE i \in 1..Len(hs) :
                      hs[i] \in T /\ \A k \in 1..(i - 1) : hs[k] \notin T
               ELSE Len(hs)
  IN IF name = Undefined \/ ~Registered(r, name) THEN eff
     ELSE IF ~v.ok
     THEN [eff EXCEPT !.log = Append(@, <<"event validation error">>)]
     ELSE [eff EXCEPT !.evs = @ \o [i \in 1..first |->
                                      [rt |-> r, ch |-> name, p |-> v.val,
                                       h |-> hs[i], threw |-> hs[i] \in T,
                                       rcv |-> eff.rcv]],
                      !.log = IF \E i \in 1..Len(hs) : hs[i] \in T
                              THEN Append(@, <<"event handler error">>) ELSE @]

\* case "event"; the handlers in T throw
DispatchEvent(eff, r, env, T) ==
  LET name == env.ch
      hs == Subscribers(r, name)
      v == IF Lookup(Events, name) THEN applyEventValidation(name, env.p)
           ELSE [ok |-> TRUE, val |-> env.p, err |-> NoMsg]
      thrown == SelectSeq(hs, LAMBDA h : h \in T)
  IN IF name = Undefined \/ ~Registered(r, name) THEN eff
     ELSE IF ~v.ok
     THEN [eff EXCEPT !.log = Append(@, <<"event validation error">>)]
     ELSE [eff EXCEPT !.evs = @ \o [i \in 1..Len(hs) |->
                                      [rt |-> r, ch |-> name, p |-> v.val,
                                       h |-> hs[i], threw |-> hs[i] \in T,
                                       rcv |-> eff.rcv]],
                      !.log = @ \o [i \in 1..Len(thrown) |->
                                      <<"event handler error">>]]

\* switch (env.kind)
DispatchByKind(eff, r, env, F, T) ==
  IF env.kind \in {"rpc_res", "rpc_err"} THEN DispatchReply(eff, r, env)
  ELSE IF env.kind = "rpc_req" THEN DispatchRequest(eff, r, env, F)
  ELSE IF env.kind = "event" THEN DispatchEvent(eff, r, env, T)
  ELSE IF env.kind = "hello" THEN eff
  ELSE [eff EXCEPT !.unknown = @ + 1]

\* what one run of the callback reads and writes
Eff0 ==
  [calls |-> calls, pending |-> pending, sent |-> sent, reqs |-> reqs,
   evs |-> evs, log |-> log, escaped |-> escaped, unknown |-> unknown,
   used |-> {}, rcv |-> received + 1]

Commit(eff) ==
  /\ calls' = eff.calls
  /\ pending' = eff.pending
  /\ sent' = eff.sent
  /\ reqs' = eff.reqs
  /\ evs' = eff.evs
  /\ log' = eff.log
  /\ escaped' = eff.escaped
  /\ unknown' = eff.unknown

\* the transport.onMessage callback of runtime r, invoked with frame raw and
\* run to its end (or to the await of an rpc handler)
OnMessage(r, raw) ==
  /\ Runs(r)
  /\ received' = received + 1
  /\ rx' = [rt |-> r, raw |-> raw]
  /\ LET parsed == parseJson(raw)
         env == parsed.env
     IN \E F \in FaultSets({"mwIn", "mwErr", "sendErr"}) :
        \E T \in ThrowSets(r, env) :
          LET eff == IF ~parsed.object THEN Eff0
                     ELSE IF "mwIn" \in F
                     THEN [Eff0 EXCEPT !.escaped =
                                         Append(@, [n |-> 0, err |-> MiddlewareError]),
                                       !.used = {"mwIn"}]
                     ELSE DispatchByKind(Eff0, r, env, F, T)
          IN /\ F = eff.used
             /\ parsed.object \/ T = {}
             /\ "mwIn" \notin F \/ T = {}
             /\ Commit(eff)
             /\ faults' = faults + Cardinality(F)
  /\ UNCHANGED <<host, socket, timeoutMs, nextId, eventHandlers, open, conns, closeRet,
                 emits, subs>>

\* a frame arrives from a peer that is outside the model
Receive(r, raw) ==
  /\ OnMessage(r, raw)
  /\ UNCHANGED <<delivered, jobs, trace>>

\* a reliable in-order link between the two runtimes: the next envelope the
\* peer's transport accepted is serialised, carried over and handed to r's
\* onMessage callback; one on which transport.send threw never left the peer
Deliver(r) ==
  /\ host = "both"
  /\ delivered[r] < Len(sent[Peer(r)])
  /\ delivered' = [delivered EXCEPT ![r] = @ + 1]
  /\ LET e == sent[Peer(r)][delivered[r] + 1]
     IN IF e.ok
        THEN OnMessage(r, Frame(e.env))
        ELSE UNCHANGED <<host, socket, timeoutMs, nextId, calls, pending, sent, reqs, evs,
                         eventHandlers, open, conns, closeRet, log, escaped,
                         unknown, received, rx, emits, faults, subs>>
  /\ UNCHANGED <<jobs, trace>>

\* ------------------------------------------- the callback, await by await
\* the callback up to its first suspension: parseJson, then runMiddlewares
\* calls the first middleware
Arrive(r, raw) ==
  /\ Runs(r)
  /\ received' = received + 1
  /\ rx' = [rt |-> r, raw |-> raw]
  /\ LET j == Len(jobs) + 1
         parsed == parseJson(raw)
     IN IF ~parsed.object
        THEN /\ jobs' = Append(jobs, [rt |-> r, env |-> parsed.env,
                                      pc |-> "dropped", at |-> 0])
             /\ UNCHANGED trace
        ELSE /\ jobs' = Append(jobs, [rt |-> r, env |-> parsed.env,
                                      pc |-> "mw", at |-> 1])
             /\ trace' = Append(trace, [ev |-> "start", job |-> j, mw |-> 1])
  /\ UNCHANGED <<host, socket, timeoutMs, nextId, calls, pending, sent, reqs, evs,
                 eventHandlers, open, conns, closeRet, log, escaped, unknown,
                 emits, faults, delivered, subs>>

\* the continuation of job j that leaves the chain as soon as one middleware
\* has settled
MwDoneSkipsRest(j) ==
  /\ j \in 1..Len(jobs)
  /\ jobs[j].pc = "mw"
  /\ \E F \in FaultSets({"mwErr", "sendErr"}) :
     \E T \in ThrowSets(jobs[j].rt, jobs[j].env) :
       LET eff == DispatchByKind([Eff0 EXCEPT !.rcv = j], jobs[j].rt,
                                 jobs[j].env, F, T)
       IN /\ F = eff.used
          /\ Commit(eff)
          /\ faults' = faults + Cardinality(F)
          /\ jobs' = [jobs EXCEPT ![j].pc = "done"]
          /\ trace' = trace \o <<[ev |-> "end", job |-> j, mw |-> jobs[j].at],
                                 [ev |-> "stage", job |-> j, mw |-> 0]>>
  /\ UNCHANGED <<host, socket, timeoutMs, nextId, eventHandlers, open, conns, closeRet,
                 received, rx, emits, delivered, subs>>

\* the middleware job j is suspended in settles without an error: the loop of
\* runMiddlewares calls the next one, or after the last one the callback
\* goes on to switch (env.kind)
MwDone(j) ==
  /\ j \in 1..Len(jobs)
  /\ jobs[j].pc = "mw"
  /\ IF jobs[j].at < Len(Middlewares)
     THEN /\ jobs' = [jobs EXCEPT ![j].at = @ + 1]
          /\ trace' = trace \o <<[ev |-> "end", job |-> j, mw |-> jobs[j].at],
                                 [ev |-> "start", job |-> j, mw |-> jobs[j].at + 1]>>
          /\ UNCHANGED <<calls, pending, sent, reqs, evs, log, escaped, unknown,
                         faults>>
     ELSE \E F \in FaultSets({"mwErr", "sendErr"}) :
          \E T \in ThrowSets(jobs[j].rt, jobs[j].env) :
            LET eff == DispatchByKind([Eff0 EXCEPT !.rcv = j], jobs[j].rt,
                                      jobs[j].env, F, T)
            IN /\ F = eff.used
               /\ Commit(eff)
               /\ faults' = faults + Cardinality(F)
               /\ jobs' = [jobs EXCEPT ![j].pc = "done"]
               /\ trace' = trace \o <<[ev |-> "end", job |-> j, mw |-> jobs[j].at],
                                      [ev |-> "stage", job |-> j, mw |-> 0]>>
  /\ UNCHANGED <<host, socket, timeoutMs, nextId, eventHandlers, open, conns, closeRet,
                 received, rx, emits, delivered, subs>>

\* the middleware job j is suspended in throws: await runMiddlewares rejects
\* outside any try, so the error leaves the callback as a rejected promise
MwThrow(j) ==
  /\ j \in 1..Len(jobs)
  /\ jobs[j].pc = "mw"
  /\ faults < MaxFaults
  /\ faults' = faults + 1
  /\ jobs' = [jobs EXCEPT ![j].pc = "threw"]
  /\ trace' = Append(trace, [ev |-> "throw", job |-> j, mw |-> jobs[j].at])
  /\ escaped' = Append(escaped, [n |-> 0, err |-> MiddlewareError])
  /\ UNCHANGED <<host, socket, timeoutMs, nextId, calls, pending, sent, reqs, evs,
                 eventHandlers, open, conns, closeRet, log, unknown,
                 received, rx, emits, delivered, subs>>

\* what a handler may do: return a value or throw
HandlerResults(ch) ==
  IF ch \in ObjectPrototypeKeys
  THEN {[throws |-> FALSE, val |-> "[object Undefined]"]}
  ELSE {[throws |-> FALSE, val |-> "res"], [throws |-> FALSE, val |-> "rawres"],
        [throws |-> FALSE, val |-> "badres"],
        [throws |-> TRUE, val |-> Undefined]}

\* the handler of dispatch n settles: response validation, reply, catch
HandlerReturn(n) ==
  /\ n \in 1..Len(reqs)
  /\ reqs[n].state = "handler"
  /\ LET r == reqs[n].rt
         env == reqs[n].env
         eff0 == [sent |-> sent, escaped |-> escaped, used |-> {}]
     IN \E result \in HandlerResults(env.ch) :
        \E F \in FaultSets({"mwRes", "sendRes", "mwErr", "sendErr"}) :
          LET eff == ReplyRes(eff0, r, n, env, result, F)
          IN /\ F = eff.used
             /\ sent' = eff.sent
             /\ escaped' = eff.escaped
             /\ reqs' = [reqs EXCEPT ![n].state = "done",
                                     ![n].result = IF result.throws THEN "throw"
                                                   ELSE result.val]
             /\ faults' = faults + Cardinality(F)
  /\ UNCHANGED <<delivered, jobs, trace, host, socket,
                 timeoutMs, nextId, calls, pending, evs, eventHandlers, open,
                 conns, closeRet, log, unknown, received, rx, emits, subs>>

\* the handler of dispatch n, suspended, calls the other side through the
\* same connection and awaits the result
HandlerCall(n) ==
  /\ n \in 1..Len(reqs)
  /\ reqs[n].state = "handler"
  /\ \A k \in 1..Len(calls) : calls[k].by /= n
  /\ CallBy(reqs[n].rt, IF reqs[n].rt = "client" THEN "add" ELSE "notify",
            "req", nextId, n)
  /\ nextId' = nextId + 1

\* a handler whose await never comes back
AwaitedNever(n) == FALSE

\* the await of the call the handler of dispatch n made is over
Awaited(n) ==
  \A k \in 1..Len(calls) : calls[k].by = n => calls[k].outcome.kind /= "pending"

\* ---------------------------------------------------------- subscriptions
\* onEvent(name, handler) of the client: the channel's Set is created on
\* first use, Set.add keeps insertion order and ignores a member it has
OnEvent(name, h) ==
  /\ Runs("client")
  /\ eventHandlers' =
       IF name \notin DOMAIN eventHandlers
       THEN MapSet(eventHandlers, name, <<h>>)
       ELSE IF \E i \in 1..Len(eventHandlers[name]) : eventHandlers[name][i] = h
       THEN eventHandlers
       ELSE MapSet(eventHandlers, name, Append(eventHandlers[name], h))
  /\ subs' = [subs EXCEPT ![h] = @ + 1]
  /\ UNCHANGED <<delivered, jobs, trace, host, socket,
                 timeoutMs, nextId, calls,
                 pending, sent, reqs, evs, open, conns, closeRet, log, escaped,
                 unknown, received, rx, emits, faults>>

\* the position of h in the sequence hs, 0 when it is not a member
IndexOf(hs, h) ==
  IF \E i \in 1..Len(hs) : hs[i] = h
  THEN CHOOSE i \in 1..Len(hs) : hs[i] = h
  ELSE 0

\* a disposer onEvent returned for h, one that has not been called before
\* if there is one: set.delete(handler); the emptied Set stays in the Map.  A
\* for...of loop that is suspended over the Set keeps its
\* place: the members it has passed stay passed, one deleted ahead of it is
\* skipped, one added (again) is appended behind it
Dispose(name, h) ==
  /\ Runs("client")
  /\ name \in DOMAIN eventHandlers
  /\ subs' = [subs EXCEPT ![h] = IF @ > 0 THEN @ - 1 ELSE @]
  /\ eventHandlers' =
       MapSet(eventHandlers, name,
              SelectSeq(eventHandlers[name], LAMBDA x : x /= h))
  /\ LET d == IndexOf(eventHandlers[name], h)
     IN jobs' = [j \in 1..Len(jobs) |->
                   IF /\ jobs[j].pc = "handler"
                      /\ jobs[j].env.ch = name
                      /\ d >= 1
                      /\ d <= jobs[j].at
                   THEN [jobs[j] EXCEPT !.at = @ - 1]
                   ELSE jobs[j]]
  /\ UNCHANGED <<delivered, trace, host, socket,
                 timeoutMs, nextId, calls,
                 pending, sent, reqs, evs, open, conns, closeRet, log, escaped,
                 unknown, received, rx, emits, faults>>

\* ------------------------------------------- the handler loop, await by await
\* the invocation h(payload, env) of job j's loop
Invoke(es, j, name, payload, h) ==
  Append(es, [rt |-> "client", ch |-> name, p |-> payload, h |-> h,
              threw |-> FALSE, rcv |-> j])

\* the client's callback for an event envelope up to the await of the first
\* subscriber: lookup of the channel's Set, validation, first invocation
EventArrive(raw) ==
  /\ Runs("client")
  /\ received' = received + 1
  /\ rx' = [rt |-> "client", raw |-> raw]
  /\ LET j == Len(jobs) + 1
         env == parseJson(raw).env
         name == env.ch
         v == IF Lookup(Events, name) THEN applyEventValidation(name, env.p)
              ELSE [ok |-> TRUE, val |-> env.p, err |-> NoMsg]
         job == [rt |-> "client", env |-> env, pc |-> "done", at |-> 0]
     IN /\ parseJson(raw).object
        /\ env.kind = "event"
        /\ IF name = Undefined \/ name \notin DOMAIN eventHandlers
           THEN /\ jobs' = Append(jobs, job)
                /\ UNCHANGED <<evs, log>>
           ELSE IF ~v.ok
           THEN /\ jobs' = Append(jobs, job)
                /\ log' = Append(log, <<"event validation error">>)
                /\ UNCHANGED evs
           ELSE IF eventHandlers[name] = <<>>
           THEN /\ jobs' = Append(jobs, job)
                /\ UNCHANGED <<evs, log>>
           ELSE /\ jobs' = Append(jobs, [job EXCEPT !.pc = "handler", !.at = 1])
                /\ evs' = Invoke(evs, j, name, v.val, eventHandlers[name][1])
                /\ UNCHANGED log
  /\ UNCHANGED <<host, socket, timeoutMs, nextId, calls, pending, sent, reqs,
                 eventHandlers, open, conns, closeRet, escaped, unknown,
                 emits, faults, delivered, trace, subs>>

\* the subscriber job j awaits settles (throws: the catch logs); the loop goes
\* on with the next member of the Set as it is now, or ends
HandlerSettle(j, throws) ==
  /\ j \in 1..Len(jobs)
  /\ jobs[j].pc = "handler"
  /\ LET name == jobs[j].env.ch
         hs == eventHandlers[name]
         at == jobs[j].at
         last == CHOOSE n \in 1..Len(evs) :
                   evs[n].rcv = j /\ \A m \in (n + 1)..Len(evs) : evs[m].rcv /= j
         es == [evs EXCEPT ![last].threw = throws]
     IN /\ log' = IF throws THEN Append(log, <<"event handler error">>) ELSE log
        /\ IF at < Len(hs)
           THEN /\ jobs' = [jobs EXCEPT ![j].at = at + 1]
                /\ evs' = Invoke(es, j, name, evs[last].p, hs[at + 1])
           ELSE /\ jobs' = [jobs EXCEPT ![j].pc = "done"]
                /\ evs' = es
  /\ UNCHANGED <<host, socket, timeoutMs, nextId, calls, pending, sent, reqs,
                 eventHandlers, open, conns, closeRet, escaped, unknown,
                 received, rx, emits, faults, delivered, trace, subs>>

\* ------------------------------------------------------------ connections
\* attachTransport(c) of the server runtime: hello, a connection with a
\* pending table of its own, conns.add(conn), onMessage
Attach(c) ==
  /\ Runs("server")
  /\ ~Attached(c)
  /\ sent' = [sent EXCEPT ![c] = <<[env |-> HelloEnvelope, ok |-> TRUE, re |-> 0,
                                  out |-> FALSE]>>]
  /\ pending' = [pending EXCEPT ![c] = EmptyMap]
  /\ conns' = conns \cup {c}
  /\ UNCHANGED <<host, socket, timeoutMs, nextId, calls, reqs, evs, eventHandlers,
                 open, closeRet, log, escaped, unknown, received, rx, emits,
                 faults, delivered, jobs, trace, subs>>

\* the peer of transport c closes the socket: the transport is told
\* (_handleClose), the runtime is not
PeerClose(c) ==
  /\ Runs("server")
  /\ Attached(c)
  /\ open[c]
  /\ open' = [open EXCEPT ![c] = FALSE]
  /\ UNCHANGED <<host, socket, timeoutMs, nextId, calls, pending, sent, reqs, evs,
                 eventHandlers, conns, closeRet, log, escaped, unknown, received,
                 rx, emits, faults, delivered, jobs, trace, subs>>

\* ------------------------------------------------------------------- emit
\* a catch of the emitter's async body that swallows the error unreported
EmitCatchSilent(lg, failed) == lg

\* catch (e) { logger.error("emit error", e) } of the emitter's async body
EmitCatch(lg, failed) ==
  IF failed THEN Append(lg, <<"emit error">>) ELSE lg

\* emit that builds and sends the envelope whatever the validator says
EmitUnvalidated(name, payload) ==
  /\ Runs("client")
  /\ name \in Events
  /\ sent' = Transmit([sent |-> sent], "client",
                      [makeBaseEnvelope("event", Version)
                         EXCEPT !.ch = name, !.p = payload], 0, FALSE).sent
  /\ emits' = Append(emits, [ch |-> name, p |-> payload])
  /\ UNCHANGED <<delivered, jobs, trace, host, socket,
                 timeoutMs, nextId, calls, pending, reqs, evs,
                 eventHandlers, open, conns, closeRet, log, escaped, unknown,
                 received, rx, faults, subs>>

\* emit.<event>(payload) of the client: validate, middleware, send; catch logs
Emit(name, payload) ==
  /\ Runs("client")
  /\ name \in Events
  /\ LET v == applyEventValidation(name, payload)
         env == [makeBaseEnvelope("event", Version)
                   EXCEPT !.ch = name, !.p = v.val]
         eff0 == [sent |-> sent]
     IN \E F \in FaultSets({"mw", "send"}) :
          LET mwThrows == v.ok /\ "mw" \in F
              sendCalled == v.ok /\ ~mwThrows
              sendThrows == sendCalled /\ "send" \in F
              eff == IF sendCalled
                     THEN Transmit(eff0, "client", env, 0, sendThrows)
                     ELSE eff0
          IN /\ F = {x \in {"mw"} : mwThrows} \cup {x \in {"send"} : sendThrows}
             /\ sent' = eff.sent
             /\ log' = EmitCatch(log, ~v.ok \/ mwThrows \/ sendThrows)
             /\ faults' = faults + Cardinality(F)
  /\ emits' = Append(emits, [ch |-> name, p |-> payload])
  /\ UNCHANGED <<delivered, jobs, trace, host, socket,
                 timeoutMs, nextId, calls, pending, reqs, evs, eventHandlers,
                 open, conns, closeRet, escaped, unknown, received, rx, subs>>

\* --------------------------------------------------------- the environment
RequestPayloads == {"req", "badreq"}

EventPayloads == {"ev", "badev"}

\* frames a peer that does not follow the protocol may put on the link
ReplyFrames ==
  {Frame([makeBaseEnvelope("rpc_res", Version) EXCEPT !.id = i, !.p = x]) :
     i \in 0..MaxCalls, x \in {"res", "badres"}}
  \cup {Frame([makeBaseEnvelope("rpc_err", Version) EXCEPT !.id = i, !.m = x]) :
     i \in 0..MaxCalls, x \in {NoMsg, <<"boom">>}}

RequestFrames ==
  {Frame([makeBaseEnvelope("rpc_req", Version)
            EXCEPT !.id = PeerReqId, !.ch = c, !.p = "req"]) :
     c \in {"add", "echo", "notify", "missing", "toString", Undefined}}
  \cup {Frame([makeBaseEnvelope("rpc_req", Version)
                 EXCEPT !.id = PeerReqId, !.ch = c, !.p = "badreq"]) :
     c \in {"add", "notify"}}

OtherFrames ==
  {Frame([makeBaseEnvelope("event", Version)
            EXCEPT !.ch = "message", !.p = x]) : x \in EventPayloads}
  \cup {Frame(makeBaseEnvelope("ping", Version)), GarbageFrame}

ForeignFrames == ReplyFrames \cup RequestFrames \cup OtherFrames

\* ---------------------------------------------------------- specification
\* the calls the application makes: runtime, method, request
CallArgs ==
  {<<"client", "add", "req">>, <<"client", "add", "badreq">>,
   <<"server", "notify", "req">>}

Issue == Len(calls) < MaxCalls /\ \E a \in CallArgs : Call(a[1], a[2], a[3])

Sends == \E k \in 1..MaxCalls : CallSend(k)

Timers == \E k \in 1..MaxCalls : TimerFire(k)

Returns == \E n \in 1..MaxRequests : HandlerReturn(n)

Emits == Len(emits) < MaxEmits /\ \E x \in EventPayloads : Emit("message", x)

\* outbound calls of both runtimes, replies chosen by the peer
Next ==
  \/ Issue
  \/ Sends
  \/ Timers
  \/ received < MaxReplies /\ \E r \in Runtimes, f \in ReplyFrames : Receive(r, f)
  \/ ClientClose
  \/ ConnClose
  \/ ServerClose

Spec == Init /\ [][Next]_vars

\* outbound calls of a runtime whose peer stays silent
NextLocal ==
  \/ Issue
  \/ Sends
  \/ Timers
  \/ ClientClose
  \/ ConnClose
  \/ ServerClose

SpecLocal == Init /\ [][NextLocal]_vars

\* outbound calls that pass validation, over a transport and middlewares
\* that do not fail, replies chosen by the peer
InitReliable == host \in Runtimes /\ faults = MaxFaults /\ Constructed

OkArgs ==
  {<<"client", "add", "req">>, <<"server", "notify", "req">>}

IssueOk == Len(calls) < MaxCalls /\ \E a \in OkArgs : Call(a[1], a[2], a[3])

NextReply ==
  \/ IssueOk
  \/ Sends
  \/ Timers
  \/ received < MaxReplies /\ \E r \in Runtimes, f \in ReplyFrames : Receive(r, f)
  \/ ClientClose
  \/ ConnClose
  \/ ServerClose

SpecReply == InitReliable /\ [][NextReply]_vars

\* several calls of one runtime outstanding at once, answered by the peer in
\* any order, each at most as often as there are calls
CorrelateFrames ==
  {Frame([makeBaseEnvelope("rpc_res", Version) EXCEPT !.id = i, !.p = "res"]) :
     i \in 1..MaxCalls}
  \cup {Frame([makeBaseEnvelope("rpc_err", Version)
                 EXCEPT !.id = i, !.m = <<"boom">>]) : i \in 1..MaxCalls}

Answers ==
  /\ received < MaxCalls
  /\ \E r \in Runtimes, f \in CorrelateFrames : Receive(r, f)

NextCorrelate == IssueOk \/ Sends \/ Answers

SpecCorrelate == InitReliable /\ [][NextCorrelate]_vars

\* calls of methods with and without a response validator, answered by
\* payloads the validator passes, transforms or refuses
ResponseArgs ==
  {<<"client", "add", "req">>, <<"client", "echo", "req">>,
   <<"server", "notify", "req">>}

ResponseFrames ==
  {Frame([makeBaseEnvelope("rpc_res", Version) EXCEPT !.id = i, !.p = x]) :
     i \in 1..MaxCalls, x \in {"res", "rawres", "badres"}}

IssueResponse ==
  Len(calls) < MaxCalls /\ \E a \in ResponseArgs : Call(a[1], a[2], a[3])

Responses ==
  /\ received < MaxReplies
  /\ \E r \in Runtimes, f \in ResponseFrames : Receive(r, f)

NextResponse == IssueResponse \/ Sends \/ Responses

SpecResponse == InitReliable /\ [][NextResponse]_vars

\* handlers that call back through the connection they serve
NestedRequest(r) ==
  Frame([makeBaseEnvelope("rpc_req", Version)
           EXCEPT !.id = PeerReqId,
                  !.ch = IF r = "client" THEN "notify" ELSE "add",
                  !.p = "req"])

NestedRequests ==
  /\ Len(reqs) < MaxNested
  /\ \E r \in Runtimes : Receive(r, NestedRequest(r))

HandlerCalls ==
  Len(calls) < MaxNested /\ \E n \in 1..MaxNested : HandlerCall(n)

NestedReplies ==
  /\ received - Len(reqs) < MaxNested
  /\ \E r \in Runtimes, i \in 1..MaxNested :
       Receive(r, Frame([makeBaseEnvelope("rpc_res", Version)
                           EXCEPT !.id = i, !.p = "res"]))

NestedReturns == \E n \in 1..MaxNested : Awaited(n) /\ HandlerReturn(n)

NextNested ==
  \/ NestedRequests
  \/ HandlerCalls
  \/ Sends
  \/ NestedReplies
  \/ NestedReturns

SpecNested == InitReliable /\ [][NextNested]_vars

\* the event loop resumes a handler whose await has settled
FairNested == SpecNested /\ WF_vars(NestedReturns)

\* calls with and without options.timeoutMs, everything that can end them:
\* a reply, a failure on the way out, a timer, a close of the runtime; the
\* environment fails at most once
InitUntimed == host \in Runtimes /\ faults = MaxFaults - 1 /\ Constructed

NextUntimed ==
  \/ IssueOk
  \/ Sends
  \/ Timers
  \/ received < MaxReplies /\ \E r \in Runtimes, f \in CorrelateFrames : Receive(r, f)
  \/ ClientClose
  \/ ServerClose

SpecUntimed == InitUntimed /\ [][NextUntimed]_vars

\* inbound frames of both runtimes and the handlers they start
NextServe ==
  \/ received < MaxRequests
     /\ \E r \in Runtimes, f \in RequestFrames \cup OtherFrames : Receive(r, f)
  \/ Returns

SpecServe == Init /\ [][NextServe]_vars

\* outbound calls and emits
NextEmit ==
  \/ Issue
  \/ Sends
  \/ Emits

SpecEmit == Init /\ [][NextEmit]_vars

\* both runtimes of one connection, joined by the link
\* (a reliable link and no failing middleware: the environment has no
\* failure left to produce)
InitPair == host = "both" /\ faults = MaxFaults /\ Constructed

PairArgs ==
  {<<"client", "add", "rawreq">>, <<"server", "notify", "req">>}

IssuePair ==
  Len(calls) < MaxCalls /\ \E a \in PairArgs : Call(a[1], a[2], a[3])

Delivers == \E r \in Runtimes : Deliver(r)

NextPair == IssuePair \/ Sends \/ Delivers \/ Returns

SpecPair == InitPair /\ [][NextPair]_vars

\* subscriptions and inbound events
EventFrames ==
  {Frame([makeBaseEnvelope("event", Version) EXCEPT !.ch = c, !.p = x]) :
     c \in {"message", "toString", Undefined}, x \in {"ev", "rawev", "badev"}}

\* the application subscribes a handler it has no subscription of, and
\* calls disposers
Subscribes == \E h \in HandlerIds : subs[h] = 0 /\ OnEvent("message", h)

Disposes == \E h \in HandlerIds : Dispose("message", h)

Notifies ==
  received < MaxEvents /\ \E r \in Runtimes, f \in EventFrames : Receive(r, f)

NextEvents == Subscribes \/ Disposes \/ Notifies

SpecEvents == Init /\ [][NextEvents]_vars

\* a server runtime with two transports, the second attached on the way;
\* calls through both connections, replies chosen by the peers
Transports == Runtimes \cup {"conn2"}

ServerConns == {AttachOrder[i] : i \in 1..Len(AttachOrder)}

\* the ids a configured options.generateId returns
IdChoices == {1, 2}

\* the replies the peers choose from
TableFrames ==
  {Frame([makeBaseEnvelope("rpc_res", Version) EXCEPT !.id = i, !.p = "res"]) :
     i \in IdChoices}
  \cup {Frame([makeBaseEnvelope("rpc_err", Version)
                 EXCEPT !.id = i, !.m = <<"boom">>]) : i \in IdChoices}

InitTables ==
  host = "server" /\ faults = MaxFaults /\ ConstructedOn(Transports, TRUE)

Attaches == \E c \in ServerConns : Attach(c)

IssueConn ==
  /\ Len(calls) < MaxCalls
  /\ \E c \in ServerConns, id \in IdChoices :
       Attached(c) /\ CallWithId(c, "notify", "req", id) /\ UNCHANGED nextId

ReceiveConn ==
  /\ received < MaxReplies
  /\ \E c \in ServerConns, f \in TableFrames : Attached(c) /\ Receive(c, f)

NextTables == Attaches \/ IssueConn \/ Sends \/ ReceiveConn

SpecTables == InitTables /\ [][NextTables]_vars

\* shutdown: a client, or a server runtime with up to two connections over
\* transports of either class; connections, the peers and the runtime close
InitShutdown ==
  host \in Runtimes /\ faults = 0 /\ \E g \in BOOLEAN : ConstructedOn(Transports, g)

ConnCloses ==
  \E c \in ServerConns : closeRet[c] < MaxConnCloses /\ ConnCloseOn(c)

PeerCloses == \E c \in ServerConns : PeerClose(c)

ServerCloses == closeRet["runtime"] < MaxCloses /\ ServerCloseAll

NextShutdown ==
  \/ Attaches
  \/ IssueOk
  \/ Sends
  \/ ConnCloses
  \/ PeerCloses
  \/ ClientClose
  \/ ServerCloses

SpecShutdown == InitShutdown /\ [][NextShutdown]_vars

\* everything a runtime puts on the wire: hello, calls, emits and the
\* replies to the requests of a peer, which may leave out the id
IdlessFrames ==
  {Frame([makeBaseEnvelope("rpc_req", Version) EXCEPT !.ch = c, !.p = "req"]) :
     c \in {"add", "notify", "missing"}}

WireFrames ==
  IdlessFrames
  \cup {Frame([makeBaseEnvelope("rpc_req", Version)
                 EXCEPT !.id = PeerReqId, !.ch = c, !.p = "req"]) :
          c \in {"add", "notify"}}

Requests ==
  /\ received < MaxRequests
  /\ \E r \in Runtimes, f \in WireFrames : Receive(r, f)

NextWire == IssueOk \/ Sends \/ Emits \/ Requests \/ Returns

SpecWire == InitReliable /\ [][NextWire]_vars

\* a handler subscribed more than once
SubscribesAgain ==
  \E h \in HandlerIds : subs[h] < MaxSubs /\ OnEvent("message", h)

NextSubs == SubscribesAgain \/ Disposes \/ Notifies

SpecSubs == Init /\ [][NextSubs]_vars

\* subscriptions that change while subscribers are suspended
LoopFrames ==
  {Frame([makeBaseEnvelope("event", Version) EXCEPT !.ch = "message", !.p = x]) :
     x \in EventPayloads}

EventArrivals == received < MaxEvents /\ \E f \in LoopFrames : EventArrive(f)

Settles ==
  /\ Len(evs) < MaxInvokes
  /\ \E j \in 1..MaxEvents, throws \in BOOLEAN : HandlerSettle(j, throws)

NextLoop == Subscribes \/ Disposes \/ EventArrivals \/ Settles

SpecLoop == Init /\ [][NextLoop]_vars

\* the inbound pipeline with middlewares and handlers that suspend
PipeFrames ==
  {Frame([makeBaseEnvelope("rpc_req", Version)
            EXCEPT !.id = PeerReqId, !.ch = "add", !.p = "req"]),
   Frame([makeBaseEnvelope("event", Version)
            EXCEPT !.ch = "message", !.p = "ev"]),
   GarbageFrame}

Arrivals ==
  Len(jobs) < MaxJobs /\ \E r \in Runtimes, f \in PipeFrames : Arrive(r, f)

Continues == \E j \in 1..MaxJobs : MwDone(j)

Throws == \E j \in 1..MaxJobs : MwThrow(j)

NextPipe == Arrivals \/ Continues \/ Throws \/ Returns

SpecPipe == Init /\ [][NextPipe]_vars

\* the middleware chain up to the dispatch by kind, handlers left suspended
NextChain == Arrivals \/ Continues \/ Throws

SpecChain == Init /\ [][NextChain]_vars

\* the scheduling the event loop gives: async bodies run and armed timers
\* fire; in addition every runtime is assumed to be shut down at some point
FairSpec ==
  /\ Spec
  /\ WF_vars(Sends)
  /\ WF_vars(Timers)
  /\ WF_vars(ClientClose)
  /\ WF_vars(ConnClose)
  /\ WF_vars(ServerClose)

\* ------------------------------------------------------------- properties
Rejected(via, msg) == [kind |-> "rejected", via |-> via, val |-> msg]

\* C1: every outbound call is settled exactly once: its promise is never
\* settled twice and never stays unsettled forever.
C1_ExactlyOneOutcome ==
  /\ [](\A k \in 1..Len(calls) : calls[k].settles <= 1)
  /\ \A k \in 1..MaxCalls :
       (k <= Len(calls)) ~> (k <= Len(calls) /\ calls[k].outcome.kind /= "pending")

\* C2: when client close() returns, the client's pending table is empty and
\* every call that was outstanding has been rejected with "client runtime
\* closed" and has no armed timer.
C2_ClientCloseAbandonsAll ==
  [][closeRet'["client"] > closeRet["client"] =>
       /\ DOMAIN pending'["client"] = {}
       /\ \A k \in 1..Len(calls) :
            (calls[k].rt = "client" /\ calls[k].outcome.kind = "pending") =>
              /\ calls'[k].outcome = Rejected("close", <<"client runtime closed">>)
              /\ calls'[k].settles = 1
              /\ calls'[k].timer /= "armed"]_vars

C2_Witness ==
  /\ closeRet["client"] > 0
  /\ DOMAIN pending["client"] = {}
  /\ \E k \in 1..Len(calls) :
       /\ calls[k].outcome = Rejected("close", <<"client runtime closed">>)
       /\ calls[k].timer = "cleared"

\* C3: when the server runtime's close() or a server connection's close()
\* returns, every outstanding server-to-client call of the connection has
\* been rejected, has no armed timer, and the connection's table is empty.
C3_ServerCloseAbandonsAll ==
  [][(\/ closeRet'["server"] > closeRet["server"]
      \/ closeRet'["runtime"] > closeRet["runtime"]) =>
       /\ DOMAIN pending'["server"] = {}
       /\ \A k \in 1..Len(calls) :
            (calls[k].rt = "server" /\ calls[k].outcome.kind = "pending") =>
              /\ calls'[k].outcome.kind = "rejected"
              /\ calls'[k].timer /= "armed"]_vars

\* C4: a timer that fires (timeoutMs positive) removes the call's entry and
\* rejects the caller with "RPC Timeout: <method>".
C4_TimeoutRejects ==
  \A k \in 1..Len(calls) :
    calls[k].timer = "fired" =>
      /\ timeoutMs[calls[k].rt] > 0
      /\ calls[k].outcome = Rejected("timeout", <<"RPC Timeout", calls[k].ch>>)
      /\ calls[k].settles = 1
      /\ calls[k].id \notin DOMAIN pending[calls[k].rt]

C4_Witness ==
  \E k \in 1..Len(calls) : calls[k].timer = "fired" /\ calls[k].pc = "sent"

C6_InvalidNeverSent ==
  /\ \A k \in 1..Len(calls) :
       (calls[k].ch \in ValidatedRpc /\ calls[k].p = "badreq") =>
         \A i \in 1..Len(sent[calls[k].rt]) :
           ~(/\ sent[calls[k].rt][i].env.kind = "rpc_req"
             /\ sent[calls[k].rt][i].env.id = calls[k].id)
  /\ Cardinality({i \in 1..Len(sent["client"]) :
                    sent["client"][i].env.kind = "event"})
       <= Cardinality({j \in 1..Len(emits) : emits[j].p /= "badev"})

C6_Witness ==
  /\ \E k \in 1..Len(calls) :
       calls[k].p = "badreq" /\ calls[k].pc = "failed"
  /\ \E j \in 1..Len(emits) : emits[j].p = "badev"
  /\ \E j \in 1..Len(emits) : emits[j].p = "ev"

\* C7: when request validation, an outbound middleware or transport.send
\* fails while the call is still pending, the entry is removed, the timer is
\* cleared and the caller is rejected with that failure's error.
C7_OutboundFailureRejects ==
  [][\A k \in 1..Len(calls) :
       (/\ calls[k].pc = "validating"
        /\ calls'[k].pc = "failed"
        /\ calls[k].outcome.kind = "pending") =>
         /\ calls[k].id \notin DOMAIN pending'[calls[k].rt]
         /\ calls'[k].timer /= "armed"
         /\ calls'[k].fail \in {<<"validation failed">>, <<"middleware error">>,
                                <<"send failed">>}
         /\ calls'[k].outcome = Rejected("outbound", calls'[k].fail)
         /\ calls'[k].settles = 1]_vars

C7_Witness ==
  \E k \in 1..Len(calls) :
    /\ calls[k].pc = "failed"
    /\ calls[k].fail = <<"send failed">>
    /\ calls[k].outcome = Rejected("outbound", <<"send failed">>)
    /\ calls[k].timer = "cleared"

\* the replies handed to transport.send while dispatch n was being served
Replies(n) ==
  {i \in 1..Len(sent[reqs[n].rt]) : sent[reqs[n].rt][i].re = n}

\* dispatch n failed in request validation, in the handler or in response
\* validation
Failed(n) ==
  \/ reqs[n].state = "invalid"
  \/ reqs[n].state = "done" /\ reqs[n].result = "throw"
  \/ reqs[n].state = "done" /\ reqs[n].result = "badres"
       /\ reqs[n].env.ch \in ValidatedRpc

FailureMessage(n) ==
  IF reqs[n].state = "done" /\ reqs[n].result = "throw"
  THEN <<"handler error">> ELSE <<"validation failed">>

ErrorReplied(n) ==
  \E i \in Replies(n) :
    /\ sent[reqs[n].rt][i].env.kind = "rpc_err"
    /\ sent[reqs[n].rt][i].env.id = reqs[n].env.id
    /\ sent[reqs[n].rt][i].env.m = FailureMessage(n)

\* C8: an rpc_req whose ch has no descriptor in the receiver's contract map,
\* or no registered handler, invokes no handler and is answered with an
\* rpc_err carrying the request's id and ch and the code "NOT_FOUND".
C8_UnknownMethodNotFound ==
  \A n \in 1..Len(reqs) :
    (\/ reqs[n].env.ch \notin RpcDefs(reqs[n].rt)
     \/ reqs[n].env.ch \notin HandlerMap(reqs[n].rt)) =>
      /\ ~reqs[n].invoked
      /\ faults = 0 =>
           \E i \in Replies(n) :
             /\ sent[reqs[n].rt][i].env.kind = "rpc_err"
             /\ sent[reqs[n].rt][i].env.id = reqs[n].env.id
             /\ sent[reqs[n].rt][i].env.ch = reqs[n].env.ch
             /\ sent[reqs[n].rt][i].env.code = "NOT_FOUND"

\* C9 as stated: whenever request validation, the handler or response
\* validation throws, an rpc_err with the request's id and the error's message
\* is sent, and a request that failed validation never reaches the handler.
C9_FailureRepliesError ==
  \A n \in 1..Len(reqs) :
    /\ Failed(n) => ErrorReplied(n)
    /\ reqs[n].state = "invalid" => ~reqs[n].invoked

\* C9 amended: the rpc_err is handed to transport.send unless the outbound
\* middleware chain throws for that rpc_err; a request that failed validation
\* never reaches the handler; and after a failed dispatch a later valid
\* rpc_req for a registered method still reaches its handler.
C9_FailureRepliesErrorUnlessMiddleware ==
  /\ [](\A n \in 1..Len(reqs) :
          /\ (Failed(n) /\ \A j \in 1..Len(escaped) :
                escaped[j] /= [n |-> n, err |-> <<"middleware error">>])
               => ErrorReplied(n)
          /\ reqs[n].state = "invalid" =>
               (~reqs[n].invoked /\ reqs[n].arg = Undefined))
  /\ [][(/\ \E n \in 1..Len(reqs) : Failed(n)
         /\ received' = received + 1
         /\ faults' = faults
         /\ rx'.raw.json
         /\ rx'.raw.env.kind = "rpc_req"
         /\ rx'.raw.env.ch \in HandlerMap(rx'.rt) \cap RpcDefs(rx'.rt)
         /\ rx'.raw.env.p = "req")
        => /\ Len(reqs') = Len(reqs) + 1
           /\ reqs'[Len(reqs')].env = rx'.raw.env
           /\ reqs'[Len(reqs')].invoked
           /\ reqs'[Len(reqs')].state = "handler"]_vars

C9_Witness ==
  \E n, m \in 1..Len(reqs) :
    /\ n < m
    /\ Failed(n) /\ ErrorReplied(n)
    /\ reqs[n].result = "throw"
    /\ reqs[m].state = "done" /\ reqs[m].result = "res"
    /\ \E i \in Replies(m) : sent[reqs[m].rt][i].env.kind = "rpc_res"

\* C10 as stated: at most one reply envelope (rpc_res or rpc_err, never both)
\* is handed to the transport per rpc_req, carrying the request's id and ch.
C10_AtMostOneReply ==
  \A n \in 1..Len(reqs) :
    /\ Cardinality(Replies(n)) <= 1
    /\ \A i \in Replies(n) :
         /\ sent[reqs[n].rt][i].env.kind \in {"rpc_res", "rpc_err"}
         /\ sent[reqs[n].rt][i].env.id = reqs[n].env.id
         /\ sent[reqs[n].rt][i].env.ch = reqs[n].env.ch

\* C10 amended: per rpc_req at most one reply is accepted by the transport;
\* at most two are handed to it, and then the first is an rpc_res on which
\* transport.send threw and the second an rpc_err; every reply handed
\* carries the request's id and ch.
C10_AtMostOneReplyAccepted ==
  \A n \in 1..Len(reqs) :
    /\ Cardinality({i \in Replies(n) : sent[reqs[n].rt][i].ok}) <= 1
    /\ Cardinality(Replies(n)) <= 2
    /\ \A i, j \in Replies(n) :
         i < j => /\ sent[reqs[n].rt][i].env.kind = "rpc_res"
                  /\ ~sent[reqs[n].rt][i].ok
                  /\ sent[reqs[n].rt][j].env.kind = "rpc_err"
    /\ \A i \in Replies(n) :
         /\ sent[reqs[n].rt][i].env.kind \in {"rpc_res", "rpc_err"}
         /\ sent[reqs[n].rt][i].env.id = reqs[n].env.id
         /\ sent[reqs[n].rt][i].env.ch = reqs[n].env.ch

C10_Witness ==
  \E n \in 1..Len(reqs) :
    /\ reqs[n].state = "done"
    /\ Cardinality(Replies(n)) = 2
    /\ \E i \in Replies(n) :
         sent[reqs[n].rt][i].env.kind = "rpc_err" /\ sent[reqs[n].rt][i].ok

\* the rpc_req / rpc_res / rpc_err envelopes with call k's id that runtime r
\* handed to its transport
Wire(r, k, kind) ==
  {i \in 1..Len(sent[r]) :
     sent[r][i].env.kind = kind /\ sent[r][i].env.id = calls[k].id}

\* the dispatches in which the peer served call k
Served(k) ==
  {n \in 1..Len(reqs) :
     reqs[n].rt = Peer(calls[k].rt) /\ reqs[n].env.id = calls[k].id}

\* C11: over a reliable in-order link a call m(x) whose validators pass
\* resolves to what the peer's handler for m returned for x (both as
\* normalised by the validators), and the wire carries exactly one rpc_req
\* and one rpc_res for the call, both with its id and ch = m; in both
\* directions.
C11_CallEqualsHandler ==
  \A k \in 1..Len(calls) :
    /\ calls[k].outcome.kind = "resolved" =>
         /\ Cardinality(Served(k)) = 1
         /\ \A n \in Served(k) :
              /\ reqs[n].invoked /\ reqs[n].state = "done"
              /\ reqs[n].env.ch = calls[k].ch
              /\ reqs[n].arg = (IF calls[k].p = "rawreq" THEN "req" ELSE calls[k].p)
              /\ calls[k].outcome.val =
                   <<IF reqs[n].result = "rawres" THEN "res" ELSE reqs[n].result>>
         /\ Cardinality(Wire(calls[k].rt, k, "rpc_req")) = 1
         /\ Cardinality(Wire(Peer(calls[k].rt), k, "rpc_res")) = 1
         /\ Wire(Peer(calls[k].rt), k, "rpc_err") = {}
         /\ \A i \in Wire(calls[k].rt, k, "rpc_req") :
              sent[calls[k].rt][i].env.ch = calls[k].ch
         /\ \A i \in Wire(Peer(calls[k].rt), k, "rpc_res") :
              sent[Peer(calls[k].rt)][i].env.ch = calls[k].ch
    /\ (\E i \in Wire(Peer(calls[k].rt), k, "rpc_res") :
          i <= delivered[calls[k].rt] /\ sent[Peer(calls[k].rt)][i].ok
          /\ \A j \in 1..Len(escaped) : escaped[j].n /= 0)
         => calls[k].outcome.kind = "resolved"

C11_Witness ==
  /\ \E k \in 1..Len(calls) :
       /\ calls[k].rt = "client" /\ calls[k].p = "rawreq"
       /\ calls[k].outcome = [kind |-> "resolved", via |-> "rpc_res", val |-> <<"res">>]
       /\ \E n \in Served(k) : reqs[n].result = "rawres"
  /\ \E k \in 1..Len(calls) :
       /\ calls[k].rt = "server"
       /\ calls[k].outcome.kind = "resolved"

\* dispatch n names a method the contract declares only for the direction
\* the receiver calls in
OppositeOnly(n) ==
  reqs[n].env.ch \in RpcDefs(Peer(reqs[n].rt)) \ RpcDefs(reqs[n].rt)

JobTrace(j) ==
  LET t == SelectSeq(trace, LAMBDA e : e.job = j)
  IN [i \in 1..Len(t) |-> <<t[i].ev, t[i].mw>>]

\* a whole run of the chain: start 1, end 1, start 2, end 2, ..., stage
FullChain ==
  [i \in 1..(2 * Len(Middlewares) + 1) |->
     IF i = 2 * Len(Middlewares) + 1 THEN <<"stage", 0>>
     ELSE IF i % 2 = 1 THEN <<"start", (i + 1) \div 2>>
     ELSE <<"end", i \div 2>>]

IsPrefix(t, u) == Len(t) <= Len(u) /\ \A i \in 1..Len(t) : t[i] = u[i]

SeenBy(i) ==
  LET t == SelectSeq(trace, LAMBDA e : e.ev = "start" /\ e.mw = i)
  IN [a \in 1..Len(t) |-> t[a].job]

\* C14: every inbound middleware sees every received envelope exactly once
\* and in the order the transport delivered them, also when middlewares
\* suspend.
C14_InboundOrderKept ==
  \A i \in 1..Len(Middlewares) :
    /\ \A a, b \in 1..Len(SeenBy(i)) : a < b => SeenBy(i)[a] < SeenBy(i)[b]
    /\ \A j \in 1..Len(jobs) :
         jobs[j].pc = "done" =>
           Cardinality({a \in 1..Len(SeenBy(i)) : SeenBy(i)[a] = j}) = 1

\* the callback invocation j has run to its end, its rpc handler included
Complete(j) ==
  /\ jobs[j].pc \in {"done", "threw", "dropped"}
  /\ \A n \in 1..Len(reqs) : reqs[n].rcv = j => reqs[n].state /= "handler"

\* C15: inbound dispatch is serialized per transport: the middleware chain
\* and handler of a later envelope do not start before those of every
\* earlier envelope have completed.
C15_DispatchSerialized ==
  \A j1, j2 \in 1..Len(jobs) :
    (j1 < j2 /\ jobs[j2].pc /= "dropped") => Complete(j1)

\* C16: when an inbound middleware throws, the error is logged through the
\* logger, and no rpc handler, event handler or settlement takes place for
\* the envelope.
C16_InboundErrorLogged ==
  [][\A j \in 1..Len(jobs) :
       (jobs[j].pc = "mw" /\ jobs'[j].pc = "threw") =>
         /\ Len(log') = Len(log) + 1
         /\ UNCHANGED <<calls, pending, reqs, evs, sent>>]_vars

\* C17: constructing a client runtime, and attaching a transport to the
\* server runtime, sends exactly one hello carrying the configured features,
\* and it is the first envelope handed to that transport.
C17_HelloFirstAndOnce ==
  \A r \in Runtimes :
    /\ Len(sent[r]) >= 1
    /\ sent[r][1].env.kind = "hello"
    /\ sent[r][1].env.feat = "features"
    /\ sent[r][1].env.v = 1
    /\ \A i \in 2..Len(sent[r]) : sent[r][i].env.kind /= "hello"

C17_Witness ==
  \A r \in Runtimes :
    /\ delivered[r] >= 1
    /\ \E i \in 2..Len(sent[r]) : sent[r][i].env.kind \in {"rpc_req", "rpc_res"}

\* the step is the receipt of an event envelope on channel rx'.raw.env.ch
\* that no inbound middleware failure cut short
EventReceipt ==
  /\ received' = received + 1
  /\ faults' = faults
  /\ rx'.raw.json
  /\ rx'.raw.env.kind = "event"

NewEvs == SubSeq(evs', Len(evs) + 1, Len(evs'))

\* C18: when an inbound event's payload fails the descriptor's validator no
\* handler is invoked and the failure is reported once through logger.error;
\* when it passes, the handlers receive the validator's output, not the raw
\* payload.
C18_InboundEventValidated ==
  [][(/\ EventReceipt
      /\ rx'.raw.env.ch \in ValidatedEvents
      /\ Registered(rx'.rt, rx'.raw.env.ch))
     => IF rx'.raw.env.p = "badev"
        THEN /\ evs' = evs
             /\ log' = Append(log, <<"event validation error">>)
        ELSE /\ Len(NewEvs) = Len(Subscribers(rx'.rt, rx'.raw.env.ch))
             /\ \A i \in 1..Len(NewEvs) :
                  /\ NewEvs[i].ch = rx'.raw.env.ch
                  /\ NewEvs[i].p = "ev"]_vars

C18_Witness ==
  /\ rx.raw.env.kind = "event" /\ rx.raw.env.p = "rawev"
  /\ \E i \in 1..Len(evs) : evs[i].rcv = received /\ evs[i].p = "ev"
  /\ \E i \in 1..Len(log) : log[i] = <<"event validation error">>

\* no handler is registered for channel ch at runtime r
NoHandler(r, ch) ==
  \/ ch = Undefined
  \/ r = "server" /\ ch \notin ServerEventHandlers
  \/ r = "client" /\ ch \notin DOMAIN eventHandlers
  \/ r = "client" /\ ch \in DOMAIN eventHandlers /\ eventHandlers[ch] = <<>>

\* C19: an inbound event whose ch is missing, or for whose channel no handler
\* is currently registered (a client channel whose subscribers were all
\* disposed included), is dropped silently: no handler runs, nothing is
\* logged and nothing is sent.
C19_UnhandledEventDropped ==
  [][(EventReceipt /\ NoHandler(rx'.rt, rx'.raw.env.ch))
     => UNCHANGED <<evs, log, sent, reqs, calls, pending>>]_vars

C21_InvokedOnceNotAfterDispose ==
  [][/\ \A a, b \in 1..Len(evs') :
          (/\ evs'[a].rt = "client" /\ evs'[b].rt = "client"
           /\ evs'[a].rcv = evs'[b].rcv
           /\ evs'[a].h = evs'[b].h) => a = b
     /\ \A n \in (Len(evs) + 1)..Len(evs') :
          evs'[n].rt = "client" =>
            /\ evs'[n].ch \in DOMAIN eventHandlers
            /\ IndexOf(eventHandlers[evs'[n].ch], evs'[n].h) >= 1]_vars

\* C22: emit.<event>(payload) returns without throwing: a failure of event
\* validation, of an outbound middleware or of transport.send is reported
\* once through logger.error and nothing reaches the caller of emit; an emit
\* that does not fail logs nothing.
C22_EmitNeverThrows ==
  [][Len(emits') = Len(emits) + 1 =>
       /\ escaped' = escaped
       /\ UNCHANGED <<calls, pending>>
       /\ IF emits'[Len(emits')].p = "badev" \/ faults' > faults
          THEN log' = Append(log, <<"emit error">>)
          ELSE log' = log]_vars

C22_Witness ==
  /\ escaped = <<>>
  /\ \E j \in 1..Len(emits) : emits[j].p = "ev"
  /\ \E i \in 1..Len(sent["client"]) :
       sent["client"][i].env.kind = "event" /\ ~sent["client"][i].ok
  /\ log = <<<<"emit error">>>>

\* C23: each server connection has a pending table of its own: a reply
\* received on one connection changes neither the table nor any call of
\* another connection, also when both hold a call with the reply's id.
C23_TablesPerConnection ==
  [][received' = received + 1 =>
       /\ \A c \in DOMAIN pending \ {rx'.rt} : pending'[c] = pending[c]
       /\ \A k \in 1..Len(calls) :
            calls[k].rt /= rx'.rt => calls'[k] = calls[k]]_vars

C23_Witness ==
  /\ received > 0
  /\ rx.raw.env.kind = "rpc_res"
  /\ \E k1, k2 \in 1..Len(calls) :
       /\ calls[k1].rt = rx.rt /\ calls[k2].rt /= rx.rt
       /\ calls[k1].id = rx.raw.env.id /\ calls[k2].id = rx.raw.env.id
       /\ calls[k1].outcome.via = "rpc_res"
       /\ calls[k2].outcome.kind = "pending"
       /\ rx.raw.env.id \in DOMAIN pending[calls[k2].rt]
       /\ rx.raw.env.id \notin DOMAIN pending[calls[k1].rt]

\* C24: with several calls of one runtime pending under distinct ids, an
\* inbound rpc_res / rpc_err settles exactly the call that registered its id
\* (resolving or rejecting it as the reply says) and removes that entry; every
\* other call and entry stays as it was, in whatever order replies arrive.
C24_ReplySettlesItsCall ==
  [][(/\ received' = received + 1
      /\ rx'.raw.env.id \in DOMAIN pending[rx'.rt])
     => LET r == rx'.rt
            env == rx'.raw.env
            k == pending[r][env.id]
        IN /\ calls[k].rt = r /\ calls[k].id = env.id
           /\ calls[k].outcome.kind = "pending"
           /\ calls'[k].outcome =
                IF env.kind = "rpc_res"
                THEN [kind |-> "resolved", via |-> "rpc_res", val |-> <<env.p>>]
                ELSE Rejected("rpc_err", env.m)
           /\ calls'[k].settles = 1
           /\ \A k2 \in 1..Len(calls) : k2 /= k => calls'[k2] = calls[k2]
           /\ DOMAIN pending'[r] = DOMAIN pending[r] \ {env.id}
           /\ \A i \in DOMAIN pending'[r] : pending'[r][i] = pending[r][i]]_vars

C24_Witness ==
  /\ Len(calls) >= 2
  /\ received > 0
  /\ rx.raw.env.id = calls[2].id
  /\ calls[1].rt = calls[2].rt
  /\ calls[2].outcome.via \in {"rpc_res", "rpc_err"}
  /\ calls[1].pc = "sent"
  /\ calls[1].outcome.kind = "pending"
  /\ calls[1].id \in DOMAIN pending[calls[1].rt]

\* C25: when close() of the server runtime returns, close() has been called
\* on every connection of its set, which closes that connection's transport,
\* and the set is empty; every connection attached so far is closed then.
C25_ServerCloseClosesAll ==
  [][closeRet'["runtime"] > closeRet["runtime"]
     => /\ \A c \in conns :
             /\ ~open'[c]
             /\ socket'.closes[c] =
                  socket.closes[c] + (IF SocketCalled(c) THEN 1 ELSE 0)
        /\ \A c \in ServerConns : Attached(c) => ~open'[c]
        /\ conns' = {}]_vars

C25_Witness ==
  /\ closeRet["runtime"] = 1
  /\ closeRet["server"] = 0 /\ closeRet["conn2"] = 0
  /\ escaped = <<>>
  /\ Attached("conn2")
  /\ socket.closes["server"] = 1 /\ socket.closes["conn2"] = 1
  /\ ~open["server"] /\ ~open["conn2"]
  /\ conns = {}

\* C26: the server runtime's connection set holds only connections whose
\* transport is open.
C26_ConnsOnlyOpen == \A c \in conns : open[c]

\* C27: a second close() of a connection has no further effect: the
\* underlying socket's close is invoked at most once per connection.
C27_SocketClosedOnce == \A c \in ServerConns : socket.closes[c] <= 1

\* C28: close-time cleanup never throws and is best-effort: no close() lets
\* an exception out, and every close() of the client leaves its pending
\* table empty with every entry of it rejected.
C28_CloseNeverThrows ==
  [][(socket' /= socket \/ closeRet' /= closeRet)
     => /\ escaped' = escaped
        /\ host = "client" =>
             /\ pending'["client"] = EmptyMap
             /\ \A i \in DOMAIN pending["client"] :
                  calls'[pending["client"][i]].outcome =
                    Rejected("close", ClosedError)]_vars

\* C29: a call of a runtime whose timeoutMs is absent or 0 has no timer and
\* is never rejected by a timeout; its pending entry leaves the table only
\* when a reply with its id arrives, when its outbound path fails, or when
\* the runtime is closed.
C29_UntimedCallStays ==
  [][\A k \in 1..Len(calls') :
       timeoutMs[calls'[k].rt] = 0 =>
         LET r == calls'[k].rt
             id == calls'[k].id
             out == calls'[k].outcome
         IN /\ calls'[k].timer = "none"
            /\ out.via /= "timeout"
            /\ (/\ k <= Len(calls)
                /\ id \in DOMAIN pending[r]
                /\ pending[r][id] = k
                /\ id \notin DOMAIN pending'[r])
               => \/ /\ out.via \in {"rpc_res", "rpc_err"}
                     /\ received' = received + 1
                     /\ rx'.rt = r
                     /\ rx'.raw.env.id = id
                  \/ /\ out.via = "outbound"
                     /\ calls[k].pc = "validating"
                     /\ calls'[k].pc = "failed"
                  \/ /\ out.via = "close"
                     /\ closeRet'[r] > closeRet[r]]_vars

C29_Witness ==
  /\ Len(calls) = 2
  /\ calls[1].rt = calls[2].rt
  /\ timeoutMs[calls[1].rt] = 0
  /\ calls[1].outcome.via = "rpc_res"
  /\ calls[2].pc = "sent"
  /\ calls[2].timer = "none"
  /\ calls[2].outcome.kind = "pending"
  /\ calls[2].id \in DOMAIN pending[calls[2].rt]

\* C30: every envelope handed to the transport has v equal to the configured
\* version and the fields of its kind: rpc_req an id and a ch, rpc_res and
\* rpc_err an id, event a ch, hello neither id nor ch.
C30_WireShape ==
  \A r \in DOMAIN sent : \A i \in 1..Len(sent[r]) :
    LET env == sent[r][i].env
    IN /\ env.v = Version
       /\ env.kind = "rpc_req" => env.id /= NoId /\ env.ch /= Undefined
       /\ env.kind \in {"rpc_res", "rpc_err"} => env.id /= NoId
       /\ env.kind = "event" => env.ch /= Undefined
       /\ env.kind = "hello" => env.id = NoId /\ env.ch = Undefined

\* C31: when an rpc_res settles a pending call, the caller gets what the
\* descriptor's response validator makes of the received payload (the
\* payload itself when the method has no response validator), and is
\* rejected with the validator's error when the validator refuses it.
C31_ResponseValidated ==
  [][(/\ received' = received + 1
      /\ rx'.raw.env.kind = "rpc_res"
      /\ rx'.raw.env.id \in DOMAIN pending[rx'.rt])
     => LET k == pending[rx'.rt][rx'.raw.env.id]
            p == rx'.raw.env.p
            out == calls'[k].outcome
        IN /\ calls[k].outcome.kind = "pending"
           /\ out.via = "rpc_res"
           /\ IF calls[k].ch \notin ValidatedRpc
              THEN out.kind = "resolved" /\ out.val = <<p>>
              ELSE IF p = "badres"
              THEN out.kind = "rejected" /\ out.val = ValidationError
              ELSE IF p = "rawres"
              THEN out.kind = "resolved" /\ out.val = <<"res">>
              ELSE out.kind = "resolved" /\ out.val = <<p>>]_vars

C31_Witness ==
  /\ rx.raw.env.kind = "rpc_res"
  /\ rx.raw.env.p = "badres"
  /\ \E k \in 1..Len(calls) :
       /\ calls[k].ch = "add"
       /\ calls[k].id = rx.raw.env.id
       /\ calls[k].outcome = Rejected("rpc_res", ValidationError)

\* the call whose entry the table of its runtime holds under its id
HasEntry(k) ==
  /\ calls[k].id \in DOMAIN pending[calls[k].rt]
  /\ pending[calls[k].rt][calls[k].id] = k

\* C32: with ids that are unique, the pending table holds the entry of a call
\* exactly while the call is waiting: a call is settled at most once, a
\* settled call has no entry, and an unsettled call has its entry.
C32_EntryWhileWaiting ==
  \A k \in 1..Len(calls) :
    /\ calls[k].settles <= 1
    /\ calls[k].outcome.kind = "pending" <=> HasEntry(k)
    /\ \A r \in DOMAIN pending : \A i \in DOMAIN pending[r] :
         pending[r][i] = k => r = calls[k].rt /\ i = calls[k].id

C32_Witness ==
  /\ Len(calls) = 2
  /\ calls[1].rt = calls[2].rt
  /\ calls[1].outcome.kind /= "pending"
  /\ calls[1].settles = 1
  /\ ~HasEntry(1)
  /\ calls[2].outcome.kind = "pending"
  /\ HasEntry(2)

\* C33: every envelope handed to transport.send has passed through the
\* outbound middleware chain before.
C33_SentThroughChain ==
  \A r \in DOMAIN sent : \A i \in 1..Len(sent[r]) : sent[r][i].out

\* an outbound middleware threw in this step while a reply to an inbound
\* rpc_req was on its way out: the exception left the dispatch, or the catch
\* of the try block turned it into an rpc_err
ReplyMiddlewareThrew ==
  \/ /\ Len(escaped') > Len(escaped)
     /\ escaped'[Len(escaped')].n > 0
     /\ escaped'[Len(escaped')].err = MiddlewareError
  \/ \E r \in Runtimes :
       /\ Len(sent'[r]) > Len(sent[r])
       /\ sent'[r][Len(sent'[r])].env.kind = "rpc_err"
       /\ sent'[r][Len(sent'[r])].env.m = MiddlewareError

\* C34: when an outbound middleware throws while a reply to an inbound
\* rpc_req is being sent, the error is logged through the logger and does
\* not leave the dispatch.
C34_ReplyMiddlewareErrorLogged ==
  [][ReplyMiddlewareThrew => Len(log') > Len(log) /\ escaped' = escaped]_vars

\* C35: a handler that, serving an inbound rpc_req, calls the other side
\* through the same connection and awaits the result is not blocked by its
\* own dispatch: the rpc_res for the nested call is dispatched while the
\* handler is suspended and resolves the call, and the reply to the original
\* request is sent afterwards.
C35_NestedCallNotBlocked ==
  /\ [][(/\ received' = received + 1
         /\ rx'.raw.env.kind = "rpc_res"
         /\ rx'.raw.env.id \in DOMAIN pending[rx'.rt]
         /\ calls[pending[rx'.rt][rx'.raw.env.id]].by > 0)
        => LET k == pending[rx'.rt][rx'.raw.env.id]
           IN /\ reqs[calls[k].by].state = "handler"
              /\ calls'[k].outcome.kind = "resolved"
              /\ reqs'[calls[k].by].state = "handler"]_vars
  /\ \A n \in 1..MaxNested :
       (/\ n <= Len(reqs)
        /\ reqs[n].state = "handler"
        /\ \E k \in 1..Len(calls) :
             calls[k].by = n /\ calls[k].outcome.kind = "resolved")
       ~> (/\ n <= Len(reqs)
           /\ \E i \in 1..Len(sent[reqs[n].rt]) : sent[reqs[n].rt][i].re = n)

C35_Witness ==
  \E n \in 1..Len(reqs) :
    /\ reqs[n].state = "done"
    /\ \E k \in 1..Len(calls) :
         /\ calls[k].by = n
         /\ calls[k].rt = reqs[n].rt
         /\ calls[k].outcome.kind = "resolved"
         /\ calls[k].outcome.via = "rpc_res"
    /\ \E i \in 1..Len(sent[reqs[n].rt]) :
         /\ sent[reqs[n].rt][i].re = n
         /\ sent[reqs[n].rt][i].env.kind = "rpc_res"
         /\ sent[reqs[n].rt][i].env.id = PeerReqId

\* C36: the rpc_req of a call is never handed to the transport after the
\* call has been rejected (by its timer or by close()) while its request
\* validation or outbound middleware was still in progress.
C36_NoSendAfterReject ==
  [][\A k \in 1..Len(calls) :
       (/\ calls[k].pc = "validating"
        /\ calls'[k].pc /= "validating"
        /\ Len(sent'[calls[k].rt]) > Len(sent[calls[k].rt]))
       => calls[k].outcome.kind = "pending"]_vars

\* C37: whatever ids the generator returns, every unsettled call keeps its
\* own entry in the pending table of its connection.
C37_OwnEntryKept ==
  \A k \in 1..Len(calls) : calls[k].outcome.kind = "pending" => HasEntry(k)

\* C38: with ids that are unique, a call settled by a reply, an outbound
\* failure or close() has its timer disarmed: a timer fires only for a call
\* that is unsettled and in the pending table, so a fired timer never
\* rejects a call a second time.
C38_SettledTimerDisarmed ==
  [][\A k \in 1..Len(calls') :
       /\ calls'[k].outcome.kind /= "pending" => calls'[k].timer /= "armed"
       /\ (k <= Len(calls) /\ calls[k].timer = "armed" /\ calls'[k].timer = "fired")
          => /\ HasEntry(k)
             /\ calls[k].settles = 0
             /\ calls'[k].settles = 1
             /\ calls'[k].outcome.via = "timeout"]_vars

C38_Witness ==
  \E k \in 1..Len(calls) :
    /\ timeoutMs[calls[k].rt] /= 0
    /\ calls[k].timer = "cleared"
    /\ calls[k].outcome.via = "rpc_res"
    /\ ~HasEntry(k)

\* C39: after close() of the client has returned, its pending table stays
\* empty and no call of it is left waiting.
C39_EmptyAfterClose ==
  closeRet["client"] > 0
    => /\ pending["client"] = EmptyMap
       /\ \A k \in 1..Len(calls) :
            calls[k].rt = "client" => calls[k].outcome.kind /= "pending"

\* C40: subscriptions are independent: as long as the disposer of one
\* onEvent call for a handler has not been called, the handler is subscribed
\* to the channel and is invoked for the events that arrive on it.
C40_SubscriptionsIndependent ==
  \A h \in HandlerIds :
    subs[h] > 0 =>
      /\ "message" \in DOMAIN eventHandlers
      /\ \E i \in 1..Len(eventHandlers["message"]) : eventHandlers["message"][i] = h

====
